---- MODULE Spec2Model ----
(***************************************************************************)
(* A model of the SandboxManager of go/mentisruntime/manager/manager.go:   *)
(* the registry (sandboxes, guarded by the RWMutex mu), the sandbox        *)
(* lifecycle (CreateSandbox, DeleteSandbox) against the container backend, *)
(* the action dispatch (InitiateAction and its goroutine                   *)
(* handleActionExecution) and the agent's push channel                     *)
(* (ReceiveInternalObservation), with the sequence of frames handed to     *)
(* hub.SubmitBroadcast.                                                     *)
(*                                                                         *)
(* Every method is cut into steps at the points where another goroutine    *)
(* can observe or change shared state: a lock operation, a call to the     *)
(* container backend, a call to the agent, a SubmitBroadcast.              *)
(***************************************************************************)
EXTENDS Integers, Sequences, FiniteSets, TLC

\* ----------------------------------------------------------------- bounds
\* uuid.NewString() in CreateSandbox is called at most MaxSandboxes times.
MaxSandboxes == 2
\* uuid.NewString() in InitiateAction is called at most MaxActions times.
MaxActions == 1
\* ReceiveInternalObservation is called at most MaxPosts times.
MaxPosts == 1
\* DeleteSandbox is called by NumDeleters concurrent callers.
NumDeleters == 2
\* SandboxExists is called by NumReaders concurrent callers.
NumReaders == 2
\* ReceiveInternalObservation is called at most MaxIngestPosts times where the
\* agent posts bodies of every kind.
MaxIngestPosts == 2

\* The values uuid.NewString() gives CreateSandbox, in the order it gives them.
SandboxIds == 1..MaxSandboxes
\* The callers of DeleteSandbox.
Deleters   == 1..NumDeleters
\* The callers of SandboxExists.
Readers    == 1..NumReaders

\* ------------------------------------------------------------ vocabulary
\* The empty string of an action_id ("" in Go, also what a missing key parses to).
NoAction == 0
\* An action_id no InitiateAction has minted (the agent made it up).
BogusAction == MaxActions + 1
\* An exit_code that is absent.
NoCode == -99
\* Nobody holds the exclusive lock.
NoWriter == <<"none", 0>>

VARIABLES
    sandboxes,    \* m.sandboxes: sandboxID -> SandboxState
    mu,           \* m.mu: [w: holder of the exclusive lock, r: holders of the read lock]
    image,        \* backend: the box image is present locally
    containers,   \* backend: containerID -> "created" | "running" | "exited"
    nextSandbox,  \* number of uuids minted by CreateSandbox
    nextAction,   \* number of uuids minted by InitiateAction
    cre,          \* the CreateSandbox call in progress, and its last return
    del,          \* DeleteSandbox calls, one per caller, and their last return
    ini,          \* the InitiateAction call in progress, and its last return
    tasks,        \* actionID -> the goroutine handleActionExecution
    agentInbox,   \* actionIDs whose request reached the agent
    rio,          \* ReceiveInternalObservation calls
    hub,          \* the frames handed to hub.SubmitBroadcast, in order
    deleted,      \* sandboxIDs for which a DeleteSandbox returned nil
    exi           \* SandboxExists calls, one per caller, and their last return

vars == <<sandboxes, mu, image, containers, nextSandbox, nextAction, cre, del,
          ini, tasks, agentInbox, rio, hub, deleted, exi>>

\* ------------------------------------------------------------- the mutex
\* A variant of CanLock that does not wait for the readers.
Mutant_CanLock_IgnoresReaders == mu.w = NoWriter

\* sync.RWMutex: Lock needs no holder at all, RLock needs no writer.
CanLock  == mu.w = NoWriter /\ mu.r = {}
CanRLock == mu.w = NoWriter

\* ------------------------------------------------------------ JSON bytes
\* A byte sequence, by what json.Unmarshal into Observation makes of it:
\* json: it parses; type, action_id: the top-level keys; exit_code, error: the
\* top-level keys of the wire schema, which Observation has no field for;
\* data: the "data" key (kind "absent", "object" or "other").
NoData == [kind |-> "absent", exit_code |-> NoCode, error |-> ""]

Bytes(json, type, aid, code, err, data) ==
    [json |-> json, type |-> type, action_id |-> aid,
     exit_code |-> code, error |-> err, data |-> data]

\* json.Marshal(Observation{Type, ActionID, Data}): the payload goes under "data".
Marshal(obsType, actionID, data) ==
    Bytes(TRUE, obsType, actionID, NoCode, "", data)

StartObservationData == [kind |-> "object", exit_code |-> NoCode, error |-> ""]
ErrorObservationData(msg) == [kind |-> "object", exit_code |-> NoCode, error |-> msg]
EndObservationData(code, msg) == [kind |-> "object", exit_code |-> code, error |-> msg]

\* A variant of Frame that hands the hub the re-serialization of the parsed
\* Observation instead of the bytes.
Mutant_Frame_Reserialized(sandboxID, src, bytes) ==
    [sb |-> sandboxID, src |-> src,
     bytes |-> Marshal(bytes.type, bytes.action_id, bytes.data)]

\* An entry of hub: src says which code path submitted it ("task": the
\* goroutine, "raw": the agent's bytes forwarded, "synth": the end made from a
\* result).
Frame(sandboxID, src, bytes) == [sb |-> sandboxID, src |-> src, bytes |-> bytes]

\* pushObservation: marshal and hub.SubmitBroadcast.
pushObservation(h, sandboxID, src, actionID, obsType, data) ==
    Append(h, Frame(sandboxID, src, Marshal(obsType, actionID, data)))

\* pushErrorObservation: an "error" observation carrying the message.
pushErrorObservation(h, sandboxID, actionID, errMsg) ==
    pushObservation(h, sandboxID, "task", actionID, "error", ErrorObservationData(errMsg))

\* ------------------------------------------------------------------ Init
IdleCreate == [pc |-> "idle", id |-> 0, res |-> "none", pulled |-> FALSE,
               confirmed |-> FALSE, networks |-> {}]
IdleDelete == [pc |-> "idle", id |-> 0, res |-> "none"]

Init ==
    /\ sandboxes = <<>>
    /\ mu = [w |-> NoWriter, r |-> {}]
    /\ image \in BOOLEAN
    /\ containers = <<>>
    /\ nextSandbox = 0
    /\ nextAction = 0
    /\ cre = IdleCreate
    /\ del = [d \in Deleters |-> IdleDelete]
    /\ ini = [pc |-> "idle", id |-> 0, kind |-> "none", exists |-> FALSE,
              running |-> FALSE, res |-> "none", action |-> NoAction,
              payload |-> [action_id |-> NoAction, command |-> "echo hi"],
              url |-> [ip |-> <<>>, port |-> 0]]
    /\ tasks = <<>>
    /\ agentInbox = {}
    /\ rio = <<>>
    /\ hub = <<>>
    /\ deleted = {}
    /\ exi = [r \in Readers |-> [pc |-> "idle", id |-> 0, res |-> FALSE]]

\* The map m with key k removed (delete(m, k)).
MapDelete(m, k) == [x \in (DOMAIN m) \ {k} |-> m[x]]
\* The map m with m[k] = v.
MapPut(m, k, v) == [x \in (DOMAIN m) \cup {k} |-> IF x = k THEN v ELSE m[x]]

\* ------------------------------------------------------- SandboxExists
\* m.mu.RLock(): the caller is among the holders of the read lock.
SandboxExists_RLock(r, sandboxID) ==
    /\ exi[r].pc \in {"idle", "ret"}
    /\ CanRLock
    /\ mu' = [mu EXCEPT !.r = @ \cup {r}]
    /\ exi' = [exi EXCEPT ![r] = [pc |-> "locked", id |-> sandboxID, res |-> FALSE]]
    /\ UNCHANGED <<sandboxes, image, containers, nextSandbox, nextAction, cre, del,
                   ini, tasks, agentInbox, rio, hub, deleted>>

\* A variant of SandboxExists_Read that asks the backend for the container.
Mutant_Read_AsksBackend(r) ==
    /\ exi[r].pc = "locked"
    /\ exi' = [exi EXCEPT ![r].pc = "ret",
                          ![r].res = (exi[r].id \in DOMAIN containers)]
    /\ mu' = [mu EXCEPT !.r = @ \ {r}]
    /\ UNCHANGED <<sandboxes, image, containers, nextSandbox, nextAction, cre, del,
                   ini, tasks, agentInbox, rio, hub, deleted>>

\* _, exists := m.sandboxes[sandboxID]; m.mu.RUnlock(); return exists, nil
SandboxExists_Read(r) ==
    /\ exi[r].pc = "locked"
    /\ exi' = [exi EXCEPT ![r].pc = "ret",
                          ![r].res = (exi[r].id \in DOMAIN sandboxes)]
    /\ mu' = [mu EXCEPT !.r = @ \ {r}]
    /\ UNCHANGED <<sandboxes, image, containers, nextSandbox, nextAction, cre, del,
                   ini, tasks, agentInbox, rio, hub, deleted>>

SandboxExists(callers, ids) ==
    \/ \E r \in callers, sandboxID \in ids : SandboxExists_RLock(r, sandboxID)
    \/ \E r \in callers : SandboxExists_Read(r)

\* ------------------------------------------------------- CreateSandbox
\* agentPort := "8000/tcp"
AgentPort == 8000
\* The empty string of an IP address.
NoIP == <<>>
\* strings.HasPrefix(ip, "172.17."), an address being the tuple of its octets.
HasPrefix17217(ip) == Len(ip) >= 2 /\ ip[1] = 172 /\ ip[2] = 17

\* A variant of ContainerIPs that takes the empty address when no network
\* has one.
Mutant_ContainerIPs_EmptyAddress(networks) ==
    LET firstPass == {ip \in networks : ip # NoIP /\ ~HasPrefix17217(ip)}
        fallback  == {ip \in networks : ip # NoIP}
    IN  IF firstPass # {} THEN firstPass
        ELSE IF fallback # {} THEN fallback ELSE {NoIP}

\* A variant of ContainerIPs with the fallback loop alone: any non-empty
\* address.
Mutant_ContainerIPs_NoFirstPass(networks) ==
    {ip \in networks : ip # NoIP}

\* The two loops over inspectData.NetworkSettings.Networks, a Go map, whose
\* iteration order is not fixed: the addresses containerIP can end up with.
\* The empty set stands for containerIP == "".
ContainerIPs(networks) ==
    LET firstPass == {ip \in networks : ip # NoIP /\ ~HasPrefix17217(ip)}
        fallback  == {ip \in networks : ip # NoIP}
    IN  IF firstPass # {} THEN firstPass ELSE fallback

\* What ContainerInspect reports as the attached networks' addresses.
NetworkChoices == { {}, {<<172, 17, 0, 2>>, <<10, 0, 0, 5>>} }

\* Addresses a network can report: none, one on the default bridge, two others.
AddressPool == {NoIP, <<172, 17, 0, 2>>, <<10, 0, 0, 5>>, <<192, 168, 1, 7>>}
\* Every set of attached networks' addresses over AddressPool.
AllNetworks == SUBSET AddressPool

\* The answers of a backend call that can succeed: with faults, it may also fail.
Answers(possible, faults) ==
    IF ~possible THEN {FALSE} ELSE IF faults THEN BOOLEAN ELSE {TRUE}

\* return "", err with the deferred m.mu.Unlock(). What is kept of a call that
\* has returned is its id and its result.
CreateReturnErr ==
    /\ cre' = [IdleCreate EXCEPT !.pc = "ret", !.id = cre.id, !.res = "err"]
    /\ mu' = [mu EXCEPT !.w = NoWriter]

\* m.mu.Lock(); sandboxID := uuid.NewString(): the next unused id, one of ids.
CreateSandbox_Lock(ids) ==
    /\ cre.pc \in {"idle", "ret"}
    /\ nextSandbox + 1 \in ids
    /\ CanLock
    /\ mu' = [mu EXCEPT !.w = <<"create", 0>>]
    /\ nextSandbox' = nextSandbox + 1
    /\ cre' = [IdleCreate EXCEPT !.pc = "inspect1", !.id = nextSandbox + 1]
    /\ UNCHANGED <<sandboxes, image, containers, nextAction, del, ini, tasks,
                   agentInbox, rio, hub, deleted, exi>>

\* ImageInspectWithRaw: nil only when the image is there.
CreateSandbox_ImageInspect(faults) ==
    /\ cre.pc = "inspect1"
    /\ \E ok \in Answers(image, faults) :
          cre' = [cre EXCEPT !.pc = IF ok THEN "inspect2" ELSE "pull"]
    /\ UNCHANGED <<sandboxes, mu, image, containers, nextSandbox, nextAction, del,
                   ini, tasks, agentInbox, rio, hub, deleted, exi>>

\* ImagePull and io.Copy(io.Discard, out): either may fail; a drained pull
\* has normally, but not necessarily, materialized the image.
CreateSandbox_ImagePull(faults) ==
    /\ cre.pc = "pull"
    /\ \E outcome \in (IF faults THEN {"pullerr", "drainerr", "ok", "lazy"} ELSE {"ok"}) :
          IF outcome \in {"pullerr", "drainerr"}
          THEN CreateReturnErr /\ image' = image
          ELSE /\ cre' = [cre EXCEPT !.pc = "inspect2", !.pulled = TRUE]
               /\ image' = (image \/ outcome = "ok")
               /\ mu' = mu
    /\ UNCHANGED <<sandboxes, containers, nextSandbox, nextAction, del, ini, tasks,
                   agentInbox, rio, hub, deleted, exi>>

\* A variant of CreateSandbox_ImageInspect2 that goes on to ContainerCreate
\* whatever the inspect answered.
Mutant_Inspect2_Ignored(faults) ==
    /\ cre.pc = "inspect2"
    /\ \E ok \in Answers(image, faults) :
          cre' = [cre EXCEPT !.pc = "create", !.confirmed = ok] /\ mu' = mu
    /\ UNCHANGED <<sandboxes, image, containers, nextSandbox, nextAction, del, ini,
                   tasks, agentInbox, rio, hub, deleted, exi>>

\* The second ImageInspectWithRaw, after any pull.
CreateSandbox_ImageInspect2(faults) ==
    /\ cre.pc = "inspect2"
    /\ \E ok \in Answers(image, faults) :
          IF ok
          THEN cre' = [cre EXCEPT !.pc = "create", !.confirmed = TRUE] /\ mu' = mu
          ELSE CreateReturnErr
    /\ UNCHANGED <<sandboxes, image, containers, nextSandbox, nextAction, del, ini,
                   tasks, agentInbox, rio, hub, deleted, exi>>

\* ContainerCreate: the container's id is modelled by the sandbox's.
CreateSandbox_ContainerCreate(faults) ==
    /\ cre.pc = "create"
    /\ \E ok \in Answers(TRUE, faults) :
          IF ok
          THEN /\ containers' = MapPut(containers, cre.id, "created")
               /\ cre' = [cre EXCEPT !.pc = "start"]
               /\ mu' = mu
          ELSE CreateReturnErr /\ containers' = containers
    /\ UNCHANGED <<sandboxes, image, nextSandbox, nextAction, del, ini, tasks,
                   agentInbox, rio, hub, deleted, exi>>

\* A variant of CreateSandbox_ContainerStart that returns the start error
\* without the ContainerRemove.
Mutant_Start_ReturnsWithoutRemove(faults) ==
    /\ cre.pc = "start"
    /\ \E ok \in Answers(cre.id \in DOMAIN containers, faults) :
          IF ok
          THEN /\ containers' = [containers EXCEPT ![cre.id] = "running"]
               /\ cre' = [cre EXCEPT !.pc = "cinspect"]
               /\ mu' = mu
          ELSE /\ containers' = containers
               /\ CreateReturnErr
    /\ UNCHANGED <<sandboxes, image, nextSandbox, nextAction, del, ini, tasks,
                   agentInbox, rio, hub, deleted, exi>>

\* ContainerStart.
CreateSandbox_ContainerStart(faults) ==
    /\ cre.pc = "start"
    /\ \E ok \in Answers(cre.id \in DOMAIN containers, faults) :
          IF ok
          THEN /\ containers' = [containers EXCEPT ![cre.id] = "running"]
               /\ cre' = [cre EXCEPT !.pc = "cinspect"]
          ELSE /\ containers' = containers
               /\ cre' = [cre EXCEPT !.pc = "rm"]
    /\ UNCHANGED <<sandboxes, mu, image, nextSandbox, nextAction, del, ini, tasks,
                   agentInbox, rio, hub, deleted, exi>>

\* ContainerRemove(Force) after a failed start; its error is only logged.
CreateSandbox_RemoveAfterStartFailure(faults) ==
    /\ cre.pc = "rm"
    /\ \E ok \in Answers(cre.id \in DOMAIN containers, faults) :
          containers' = IF ok THEN MapDelete(containers, cre.id) ELSE containers
    /\ CreateReturnErr
    /\ UNCHANGED <<sandboxes, image, nextSandbox, nextAction, del, ini, tasks,
                   agentInbox, rio, hub, deleted, exi>>

\* A variant of CreateSandbox_InspectAndStore that stores the entry before it
\* looks for the address.
Mutant_Store_BeforeAddressCheck(faults, nets) ==
    /\ cre.pc = "cinspect"
    /\ \E ok \in Answers(cre.id \in DOMAIN containers, faults) :
       \E networks \in nets :
          IF ok
          THEN \E containerIP \in ContainerIPs(networks) \cup {NoIP} :
                 /\ containerIP = NoIP => ContainerIPs(networks) = {}
                 /\ sandboxes' = MapPut(sandboxes, cre.id,
                                   [ContainerID |-> cre.id,
                                    AgentURL |-> [ip |-> containerIP, port |-> AgentPort],
                                    IsRunning |-> TRUE])
                 /\ cre' = [IdleCreate EXCEPT !.pc = "ret", !.id = cre.id,
                              !.res = IF containerIP = NoIP THEN "err" ELSE "ok"]
                 /\ mu' = [mu EXCEPT !.w = NoWriter]
          ELSE CreateReturnErr /\ sandboxes' = sandboxes
    /\ UNCHANGED <<image, containers, nextSandbox, nextAction, del, ini, tasks,
                   agentInbox, rio, hub, deleted, exi>>

\* ContainerInspect, the address selection and m.sandboxes[sandboxID] = state.
\* nets: the sets of addresses the inspection can report; the one it did
\* report is kept with the result of the call.
CreateSandbox_InspectAndStore(faults, nets) ==
    /\ cre.pc = "cinspect"
    /\ \E ok \in Answers(cre.id \in DOMAIN containers, faults) :
       \E networks \in nets :
          IF ~ok
          THEN CreateReturnErr /\ sandboxes' = sandboxes
          ELSE IF ContainerIPs(networks) = {}
          THEN /\ cre' = [IdleCreate EXCEPT !.pc = "ret", !.id = cre.id,
                                            !.res = "err", !.networks = networks]
               /\ mu' = [mu EXCEPT !.w = NoWriter]
               /\ sandboxes' = sandboxes
          ELSE \E containerIP \in ContainerIPs(networks) :
                 /\ sandboxes' = MapPut(sandboxes, cre.id,
                                   [ContainerID |-> cre.id,
                                    AgentURL |-> [ip |-> containerIP, port |-> AgentPort],
                                    IsRunning |-> TRUE])
                 /\ cre' = [IdleCreate EXCEPT !.pc = "ret", !.id = cre.id,
                                              !.res = "ok", !.networks = networks]
                 /\ mu' = [mu EXCEPT !.w = NoWriter]
    /\ UNCHANGED <<image, containers, nextSandbox, nextAction, del, ini, tasks,
                   agentInbox, rio, hub, deleted, exi>>

CreateSandbox(ids, faults) ==
    \/ CreateSandbox_Lock(ids)
    \/ CreateSandbox_ImageInspect(faults)
    \/ CreateSandbox_ImagePull(faults)
    \/ CreateSandbox_ImageInspect2(faults)
    \/ CreateSandbox_ContainerCreate(faults)
    \/ CreateSandbox_ContainerStart(faults)
    \/ CreateSandbox_RemoveAfterStartFailure(faults)
    \/ CreateSandbox_InspectAndStore(faults, IF faults THEN NetworkChoices
                                                       ELSE NetworkChoices \ {{}})

\* ------------------------------------------------------- DeleteSandbox
\* The call is made: the caller is at m.mu.Lock().
DeleteSandbox_Call(d, sandboxID) ==
    /\ del[d].pc \in {"idle", "ret"}
    /\ del' = [del EXCEPT ![d] = [pc |-> "wait", id |-> sandboxID, res |-> "none"]]
    /\ UNCHANGED <<sandboxes, mu, image, containers, nextSandbox, nextAction, cre,
                   ini, tasks, agentInbox, rio, hub, deleted, exi>>

\* m.mu.Lock(); state, exists := m.sandboxes[sandboxID]; not found returns.
DeleteSandbox_Lookup(d) ==
    /\ del[d].pc = "wait"
    /\ CanLock
    /\ IF del[d].id \in DOMAIN sandboxes
       THEN /\ del' = [del EXCEPT ![d].pc = "stop"]
            /\ mu' = [mu EXCEPT !.w = <<"delete", d>>]
       ELSE /\ del' = [del EXCEPT ![d].pc = "ret", ![d].res = "notfound"]
            /\ mu' = mu
    /\ UNCHANGED <<sandboxes, image, containers, nextSandbox, nextAction, cre, ini,
                   tasks, agentInbox, rio, hub, deleted, exi>>

\* A variant of DeleteSandbox_ContainerStop that returns the error of
\* ContainerStop.
Mutant_Stop_AbortsOnError(d, faults) ==
    /\ del[d].pc = "stop"
    /\ LET cid == sandboxes[del[d].id].ContainerID IN
       \E ok \in Answers(cid \in DOMAIN containers, faults) :
          IF ok
          THEN /\ containers' = [containers EXCEPT ![cid] = "exited"]
               /\ del' = [del EXCEPT ![d].pc = "remove"]
               /\ mu' = mu
          ELSE /\ containers' = containers
               /\ del' = [del EXCEPT ![d].pc = "ret", ![d].res = "fail"]
               /\ mu' = [mu EXCEPT !.w = NoWriter]
    /\ UNCHANGED <<sandboxes, image, nextSandbox, nextAction, cre, ini, tasks,
                   agentInbox, rio, hub, deleted, exi>>

\* ContainerStop: its error is logged and the removal is attempted anyway.
DeleteSandbox_ContainerStop(d, faults) ==
    /\ del[d].pc = "stop"
    /\ LET cid == sandboxes[del[d].id].ContainerID IN
       \E ok \in Answers(cid \in DOMAIN containers, faults) :
          containers' = IF ok THEN [containers EXCEPT ![cid] = "exited"] ELSE containers
    /\ del' = [del EXCEPT ![d].pc = "remove"]
    /\ UNCHANGED <<sandboxes, mu, image, nextSandbox, nextAction, cre, ini, tasks,
                   agentInbox, rio, hub, deleted, exi>>

\* The answers of ContainerRemove: "notfound" when the container is gone.
RemoveAnswers(present, faults) ==
    (IF present THEN {"ok"} ELSE {"notfound"}) \cup (IF faults THEN {"fail"} ELSE {})

\* A variant of DeleteSandbox_ContainerRemove that returns nil without having
\* removed the entry.
Mutant_Remove_KeepsEntry(d, faults) ==
    /\ del[d].pc = "remove"
    /\ LET cid == sandboxes[del[d].id].ContainerID IN
       \E outcome \in RemoveAnswers(cid \in DOMAIN containers, faults) :
          /\ containers' = IF outcome = "ok" THEN MapDelete(containers, cid)
                                             ELSE containers
          /\ del' = [del EXCEPT ![d].pc = "ret",
                                ![d].res = IF outcome = "fail" THEN "fail" ELSE "ok"]
          /\ deleted' = IF outcome = "fail" THEN deleted
                                            ELSE deleted \cup {del[d].id}
    /\ mu' = [mu EXCEPT !.w = NoWriter]
    /\ UNCHANGED <<sandboxes, image, nextSandbox, nextAction, cre, ini, tasks,
                   agentInbox, rio, hub, exi>>

\* A variant of DeleteSandbox_ContainerRemove that takes every error of
\* ContainerRemove for "no such container".
Mutant_Remove_AnyErrorIsGone(d, faults) ==
    /\ del[d].pc = "remove"
    /\ LET sandboxID == del[d].id
           cid == sandboxes[sandboxID].ContainerID IN
       \E outcome \in RemoveAnswers(cid \in DOMAIN containers, faults) :
          /\ containers' = IF outcome = "ok" THEN MapDelete(containers, cid)
                                             ELSE containers
          /\ del' = [del EXCEPT ![d].pc = "ret", ![d].res = "ok"]
          /\ sandboxes' = MapDelete(sandboxes, sandboxID)
          /\ deleted' = deleted \cup {sandboxID}
    /\ mu' = [mu EXCEPT !.w = NoWriter]
    /\ UNCHANGED <<image, nextSandbox, nextAction, cre, ini, tasks, agentInbox,
                   rio, hub, exi>>

\* ContainerRemove(Force, RemoveVolumes), delete(m.sandboxes, sandboxID) and
\* the return with the deferred m.mu.Unlock(). outcome "notfound" is
\* client.IsErrNotFound(err), "fail" any other error.
DeleteSandbox_ContainerRemove(d, faults) ==
    /\ del[d].pc = "remove"
    /\ LET sandboxID == del[d].id
           cid == sandboxes[sandboxID].ContainerID IN
       \E outcome \in RemoveAnswers(cid \in DOMAIN containers, faults) :
          /\ containers' = IF outcome = "ok" THEN MapDelete(containers, cid)
                                             ELSE containers
          /\ IF outcome = "fail"
             THEN /\ del' = [del EXCEPT ![d].pc = "ret", ![d].res = "fail"]
                  /\ sandboxes' = sandboxes
                  /\ deleted' = deleted
             ELSE /\ del' = [del EXCEPT ![d].pc = "ret", ![d].res = "ok"]
                  /\ sandboxes' = MapDelete(sandboxes, sandboxID)
                  /\ deleted' = deleted \cup {sandboxID}
    /\ mu' = [mu EXCEPT !.w = NoWriter]
    /\ UNCHANGED <<image, nextSandbox, nextAction, cre, ini, tasks, agentInbox,
                   rio, hub, exi>>

DeleteSandbox(callers, ids, faults) ==
    \E d \in callers :
        \/ \E sandboxID \in ids : DeleteSandbox_Call(d, sandboxID)
        \/ DeleteSandbox_Lookup(d)
        \/ DeleteSandbox_ContainerStop(d, faults)
        \/ DeleteSandbox_ContainerRemove(d, faults)

\* --------------------------------------------------- the container backend
\* A container is removed from outside the runtime (docker rm -f, a daemon
\* restart): what makes Stop and Remove answer "no such container".
BackendLosesContainer ==
    /\ \E cid \in DOMAIN containers : containers' = MapDelete(containers, cid)
    /\ UNCHANGED <<sandboxes, mu, image, nextSandbox, nextAction, cre, del, ini,
                   tasks, agentInbox, rio, hub, deleted, exi>>

\* ------------------------------------------------------ InitiateAction
\* The action types a client may name; only "shell" and "ipython" are routed.
ActionTypes == {"shell", "ipython", "unknown"}

\* A variant of ActionPath whose default branch routes to the shell tool.
Mutant_ActionPath_DefaultShell(actionType) ==
    CASE actionType = "ipython" -> "/tools:run_ipython_cell"
      [] OTHER                  -> "/tools:run_shell_command"

\* The switch on actionType: the agent URL, or "" for the default branch.
ActionPath(actionType) ==
    CASE actionType = "shell"   -> "/tools:run_shell_command"
      [] actionType = "ipython" -> "/tools:run_ipython_cell"
      [] OTHER                  -> ""

\* The payload of a client: its "command" (or "code"), and its "action_id"
\* key if it has one (NoAction: it has none).
PlainPayload == [action_id |-> NoAction, command |-> "echo hi"]
\* A payload that names an action_id of its own.
OwnIDPayload == [action_id |-> BogusAction, command |-> "echo hi"]

\* requestPayload: {"action_id": actionID} with every key of the payload
\* copied over it.
RequestPayload(actionID, payload) ==
    [action_id |-> IF payload.action_id # NoAction THEN payload.action_id
                                                   ELSE actionID,
     command |-> payload.command]

\* The AgentURL of no sandbox.
NoURL == [ip |-> NoIP, port |-> 0]

IdleInitiate == [pc |-> "idle", id |-> 0, kind |-> "none", exists |-> FALSE,
                 running |-> FALSE, res |-> "none", action |-> NoAction,
                 payload |-> PlainPayload, url |-> NoURL]

\* m.mu.RLock(); state, exists := m.sandboxes[sandboxID]; m.mu.RUnlock().
\* The read lock is held for this one read, so the three are one step: no
\* writer can come between them, and a reader changes nothing. A call that
\* will be accepted is made while uuid.NewString() has one of its limit
\* values left to give.
InitiateAction_Lookup(sandboxID, actionType, payload, limit) ==
    /\ ini.pc \in {"idle", "ret"}
    /\ (sandboxID \in DOMAIN sandboxes /\ sandboxes[sandboxID].IsRunning)
          => nextAction < limit
    /\ CanRLock
    /\ LET exists == sandboxID \in DOMAIN sandboxes IN
       ini' = [IdleInitiate EXCEPT !.pc = "checked", !.id = sandboxID,
                                   !.kind = actionType, !.exists = exists,
                                   !.running = exists /\ sandboxes[sandboxID].IsRunning,
                                   !.payload = payload,
                                   !.url = IF exists THEN sandboxes[sandboxID].AgentURL
                                                     ELSE NoURL]
    /\ UNCHANGED <<sandboxes, mu, image, containers, nextSandbox, nextAction, cre,
                   del, tasks, agentInbox, rio, hub, deleted, exi>>

\* A variant of InitiateAccepts that does not look at exists.
Mutant_InitiateAccepts_Always(call) == TRUE

\* if !exists || !state.IsRunning
InitiateAccepts(call) == call.exists /\ call.running

\* A variant of InitiateAction_Finish that submits the start frame itself.
Mutant_Finish_SubmitsStart ==
    /\ ini.pc = "checked"
    /\ InitiateAccepts(ini)
    /\ nextAction' = nextAction + 1
    /\ ini' = [ini EXCEPT !.pc = "ret", !.res = "ok", !.action = nextAction + 1]
    /\ tasks' = MapPut(tasks, nextAction + 1,
                  [pc |-> "start", sb |-> ini.id, base |-> ini.url,
                   path |-> ActionPath(ini.kind),
                   body |-> RequestPayload(nextAction + 1, ini.payload),
                   why |-> "none"])
    /\ hub' = pushObservation(hub, ini.id, "task", nextAction + 1, "start",
                              StartObservationData)
    /\ UNCHANGED <<sandboxes, mu, image, containers, nextSandbox, cre, del,
                   agentInbox, rio, deleted, exi>>

\* The rest of InitiateAction: the check, uuid.NewString(), the switch on the
\* action type, go m.handleActionExecution(...), return.
InitiateAction_Finish ==
    /\ ini.pc = "checked"
    /\ IF ~InitiateAccepts(ini)
       THEN /\ ini' = [ini EXCEPT !.pc = "ret", !.res = "err"]
            /\ UNCHANGED <<nextAction, tasks>>
       ELSE /\ nextAction' = nextAction + 1
            /\ IF ActionPath(ini.kind) = ""
               THEN /\ ini' = [ini EXCEPT !.pc = "ret", !.res = "err"]
                    /\ tasks' = tasks
               ELSE /\ ini' = [ini EXCEPT !.pc = "ret", !.res = "ok",
                                          !.action = nextAction + 1]
                    /\ tasks' = MapPut(tasks, nextAction + 1,
                                  [pc |-> "start", sb |-> ini.id, base |-> ini.url,
                                   path |-> ActionPath(ini.kind),
                                   body |-> RequestPayload(nextAction + 1,
                                                           ini.payload),
                                   why |-> "none"])
    /\ UNCHANGED <<sandboxes, mu, image, containers, nextSandbox, cre, del,
                   agentInbox, rio, hub, deleted, exi>>

InitiateAction(ids, types, payloads, limit) ==
    \/ \E sandboxID \in ids, actionType \in types, payload \in payloads :
          InitiateAction_Lookup(sandboxID, actionType, payload, limit)
    \/ InitiateAction_Finish

\* ----------------------------------------------- handleActionExecution
\* The errMsg of each failure of the agent request.
ErrMsg(why) ==
    CASE why = "build"     -> "Failed to create request to agent"
      [] why = "transport" -> "Failed to execute action request via agent"
      [] why = "status"    -> "Agent returned error status"
      [] OTHER             -> ""

\* A variant of handleActionExecution_Start that goes on to the request without
\* having submitted start.
Mutant_Start_NotSubmitted(a) ==
    /\ tasks[a].pc = "start"
    /\ tasks' = [tasks EXCEPT ![a].pc = "send"]
    /\ UNCHANGED <<sandboxes, mu, image, containers, nextSandbox, nextAction, cre,
                   del, ini, agentInbox, rio, hub, deleted, exi>>

\* m.pushObservation(sandboxID, actionID, "start", StartObservationData{})
handleActionExecution_Start(a) ==
    /\ tasks[a].pc = "start"
    /\ hub' = pushObservation(hub, tasks[a].sb, "task", a, "start", StartObservationData)
    /\ tasks' = [tasks EXCEPT ![a].pc = "send"]
    /\ UNCHANGED <<sandboxes, mu, image, containers, nextSandbox, nextAction, cre,
                   del, ini, agentInbox, rio, deleted, exi>>

\* http.NewRequestWithContext and the sending half of m.httpClient.Do:
\* the request is not built ("build"), is lost before the agent has it
\* ("lost") or reaches the agent ("delivered"). On a failure the goroutine
\* goes on to m.pushErrorObservation(sandboxID, actionID, errMsg).
handleActionExecution_Send(a) ==
    /\ tasks[a].pc = "send"
    /\ \E outcome \in {"build", "lost", "delivered"} :
          CASE outcome = "build" ->
                 /\ tasks' = [tasks EXCEPT ![a].pc = "end", ![a].why = "build"]
                 /\ hub' = pushErrorObservation(hub, tasks[a].sb, a, ErrMsg("build"))
                 /\ agentInbox' = agentInbox
            [] outcome = "lost" ->
                 /\ tasks' = [tasks EXCEPT ![a].pc = "end", ![a].why = "transport"]
                 /\ hub' = pushErrorObservation(hub, tasks[a].sb, a, ErrMsg("transport"))
                 /\ agentInbox' = agentInbox
            [] OTHER ->
                 /\ tasks' = [tasks EXCEPT ![a].pc = "await"]
                 /\ hub' = hub
                 /\ agentInbox' = agentInbox \cup {a}
    /\ UNCHANGED <<sandboxes, mu, image, containers, nextSandbox, nextAction, cre,
                   del, ini, rio, deleted, exi>>

\* A variant of handleActionExecution_Response that submits an end with
\* exit_code 0 when the agent has accepted the request.
Mutant_Response_EndOnAccept(a) ==
    /\ tasks[a].pc = "await"
    /\ \E outcome \in {"transport", "status", "ok"} :
          IF outcome = "ok"
          THEN /\ tasks' = [tasks EXCEPT ![a].pc = "done", ![a].why = "ok"]
               /\ hub' = pushObservation(hub, tasks[a].sb, "task", a, "end",
                                         EndObservationData(0, ""))
          ELSE /\ tasks' = [tasks EXCEPT ![a].pc = "end", ![a].why = outcome]
               /\ hub' = pushErrorObservation(hub, tasks[a].sb, a, ErrMsg(outcome))
    /\ UNCHANGED <<sandboxes, mu, image, containers, nextSandbox, nextAction, cre,
                   del, ini, agentInbox, rio, deleted, exi>>

\* The receiving half of m.httpClient.Do and the status check: the response
\* is lost ("transport") or has status >= 400 ("status"), and the goroutine
\* goes on to m.pushErrorObservation, or it is accepted ("ok") and the
\* goroutine ends.
handleActionExecution_Response(a) ==
    /\ tasks[a].pc = "await"
    /\ \E outcome \in {"transport", "status", "ok"} :
          IF outcome = "ok"
          THEN /\ tasks' = [tasks EXCEPT ![a].pc = "done", ![a].why = "ok"]
               /\ hub' = hub
          ELSE /\ tasks' = [tasks EXCEPT ![a].pc = "end", ![a].why = outcome]
               /\ hub' = pushErrorObservation(hub, tasks[a].sb, a, ErrMsg(outcome))
    /\ UNCHANGED <<sandboxes, mu, image, containers, nextSandbox, nextAction, cre,
                   del, ini, agentInbox, rio, deleted, exi>>

\* A variant of handleActionExecution_PushEnd whose end carries exit_code 0.
Mutant_PushEnd_ExitCodeZero(a) ==
    /\ tasks[a].pc = "end"
    /\ hub' = pushObservation(hub, tasks[a].sb, "task", a, "end",
                              EndObservationData(0, ErrMsg(tasks[a].why)))
    /\ tasks' = [tasks EXCEPT ![a].pc = "done"]
    /\ UNCHANGED <<sandboxes, mu, image, containers, nextSandbox, nextAction, cre,
                   del, ini, agentInbox, rio, deleted, exi>>

\* m.pushObservation(sandboxID, actionID, "end", EndObservationData{ExitCode: -1, Error: errMsg})
handleActionExecution_PushEnd(a) ==
    /\ tasks[a].pc = "end"
    /\ hub' = pushObservation(hub, tasks[a].sb, "task", a, "end",
                              EndObservationData(-1, ErrMsg(tasks[a].why)))
    /\ tasks' = [tasks EXCEPT ![a].pc = "done"]
    /\ UNCHANGED <<sandboxes, mu, image, containers, nextSandbox, nextAction, cre,
                   del, ini, agentInbox, rio, deleted, exi>>

handleActionExecution ==
    \/ \E a \in DOMAIN tasks : handleActionExecution_Start(a)
    \/ \E a \in DOMAIN tasks : handleActionExecution_Send(a)
    \/ \E a \in DOMAIN tasks : handleActionExecution_Response(a)
    \/ \E a \in DOMAIN tasks : handleActionExecution_PushEnd(a)

\* --------------------------------------- ReceiveInternalObservation
\* What the agent posts. A "stream" line, and a "result" laid out as the
\* executor does, exit_code under "data".
StreamBody(a) == Bytes(TRUE, "stream", a, NoCode, "", NoData)
ResultBody(a) == Bytes(TRUE, "result", a, NoCode, "", EndObservationData(0, ""))
Garbage == Bytes(FALSE, "", NoAction, NoCode, "", NoData)
\* A "result" laid out as ObservationData of the wire schema: exit_code a key
\* of the frame itself (NoCode: the key is left out), no "data" key.
WireResultBody(a, code) == Bytes(TRUE, "result", a, code, "", NoData)

\* The posts the agent can make to the ingress endpoint of sandboxID: frames
\* of the actions of that sandbox whose request it has received, under the
\* action_id of the request body, frames with no action_id, frames with a
\* made-up one, bytes that are no JSON.
AgentFrames(sandboxID, types) ==
    LET known == {tasks[a].body.action_id : a \in {x \in agentInbox : tasks[x].sb = sandboxID}}
    IN  {StreamBody(a) : a \in {x \in known : "stream" \in types}}
        \cup {ResultBody(a) : a \in {x \in known : "result" \in types}}

StrayPosts ==
    LET aids == {NoAction, BogusAction}
    IN  {StreamBody(a) : a \in aids} \cup {ResultBody(a) : a \in aids} \cup {Garbage}

AgentPosts(sandboxID) == AgentFrames(sandboxID, {"stream", "result"}) \cup StrayPosts

\* A variant of ReceiveInternalObservation_Lookup that takes every sandbox
\* for registered.
Mutant_Lookup_NoExistenceCheck(sandboxID, observationData, limit) ==
    /\ Len(rio) < limit
    /\ CanRLock
    /\ rio' = Append(rio, [pc |-> "checked", sb |-> sandboxID,
                           body |-> observationData, exists |-> TRUE,
                           res |-> "none"])
    /\ UNCHANGED <<sandboxes, mu, image, containers, nextSandbox, nextAction, cre,
                   del, ini, tasks, agentInbox, hub, deleted, exi>>

\* m.mu.RLock(); _, exists := m.sandboxes[sandboxID]; m.mu.RUnlock(), one
\* step as in InitiateAction_Lookup.
ReceiveInternalObservation_Lookup(sandboxID, observationData, limit) ==
    /\ Len(rio) < limit
    /\ CanRLock
    /\ rio' = Append(rio, [pc |-> "checked", sb |-> sandboxID,
                           body |-> observationData,
                           exists |-> sandboxID \in DOMAIN sandboxes,
                           res |-> "none"])
    /\ UNCHANGED <<sandboxes, mu, image, containers, nextSandbox, nextAction, cre,
                   del, ini, tasks, agentInbox, hub, deleted, exi>>

\* A variant of ReceiveInternalObservation_Forward without the check of
\* obs.ActionID.
Mutant_Forward_NoActionIDCheck(k) ==
    /\ rio[k].pc = "checked"
    /\ LET call == rio[k]
           obs  == call.body IN
       CASE ~call.exists ->
              /\ rio' = [rio EXCEPT ![k].pc = "ret", ![k].res = "ok"]
              /\ hub' = hub
         [] call.exists /\ ~obs.json ->
              /\ rio' = [rio EXCEPT ![k].pc = "ret", ![k].res = "parse_error"]
              /\ hub' = hub
         [] OTHER ->
              /\ hub' = Append(hub, Frame(call.sb, "raw", call.body))
              /\ IF obs.type = "result"
                 THEN rio' = [rio EXCEPT ![k].pc = "end"]
                 ELSE rio' = [rio EXCEPT ![k].pc = "ret", ![k].res = "ok"]
    /\ UNCHANGED <<sandboxes, mu, image, containers, nextSandbox, nextAction, cre,
                   del, ini, tasks, agentInbox, deleted, exi>>

\* A variant of ReceiveInternalObservation_Forward that broadcasts the bytes
\* it could not parse before it returns the parse error.
Mutant_Forward_BroadcastsUnparsed(k) ==
    /\ rio[k].pc = "checked"
    /\ LET call == rio[k]
           obs  == call.body IN
       CASE ~call.exists ->
              /\ rio' = [rio EXCEPT ![k].pc = "ret", ![k].res = "ok"]
              /\ hub' = hub
         [] call.exists /\ ~obs.json ->
              /\ rio' = [rio EXCEPT ![k].pc = "ret", ![k].res = "parse_error"]
              /\ hub' = Append(hub, Frame(call.sb, "raw", call.body))
         [] call.exists /\ obs.json /\ obs.action_id = NoAction ->
              /\ rio' = [rio EXCEPT ![k].pc = "ret", ![k].res = "ok"]
              /\ hub' = hub
         [] OTHER ->
              /\ hub' = Append(hub, Frame(call.sb, "raw", call.body))
              /\ IF obs.type = "result"
                 THEN rio' = [rio EXCEPT ![k].pc = "end"]
                 ELSE rio' = [rio EXCEPT ![k].pc = "ret", ![k].res = "ok"]
    /\ UNCHANGED <<sandboxes, mu, image, containers, nextSandbox, nextAction, cre,
                   del, ini, tasks, agentInbox, deleted, exi>>

\* The existence check, json.Unmarshal, the action_id check and
\* m.hub.SubmitBroadcast(sandboxID, observationData).
ReceiveInternalObservation_Forward(k) ==
    /\ rio[k].pc = "checked"
    /\ LET call == rio[k]
           obs  == call.body IN
       CASE ~call.exists ->
              /\ rio' = [rio EXCEPT ![k].pc = "ret", ![k].res = "ok"]
              /\ hub' = hub
         [] call.exists /\ ~obs.json ->
              /\ rio' = [rio EXCEPT ![k].pc = "ret", ![k].res = "parse_error"]
              /\ hub' = hub
         [] call.exists /\ obs.json /\ obs.action_id = NoAction ->
              /\ rio' = [rio EXCEPT ![k].pc = "ret", ![k].res = "ok"]
              /\ hub' = hub
         [] OTHER ->
              /\ hub' = Append(hub, Frame(call.sb, "raw", call.body))
              /\ IF obs.type = "result"
                 THEN rio' = [rio EXCEPT ![k].pc = "end"]
                 ELSE rio' = [rio EXCEPT ![k].pc = "ret", ![k].res = "ok"]
    /\ UNCHANGED <<sandboxes, mu, image, containers, nextSandbox, nextAction, cre,
                   del, ini, tasks, agentInbox, deleted, exi>>

\* exitCode of the synthesized end: obs.Data["exit_code"] when obs.Data is an
\* object holding a number there, -1 otherwise.
ResultExitCode(obs) ==
    IF obs.data.kind = "object" /\ obs.data.exit_code # NoCode
    THEN obs.data.exit_code ELSE -1

\* errorMsg of the synthesized end.
ResultErrorMsg(obs) ==
    IF obs.data.kind = "object" THEN obs.data.error
    ELSE "Result data format unexpected"

\* if obs.Type == "result": m.pushObservation(sandboxID, obs.ActionID, "end", ...)
ReceiveInternalObservation_End(k) ==
    /\ rio[k].pc = "end"
    /\ LET obs == rio[k].body IN
       hub' = pushObservation(hub, rio[k].sb, "synth", obs.action_id, "end",
                 EndObservationData(ResultExitCode(obs), ResultErrorMsg(obs)))
    /\ rio' = [rio EXCEPT ![k].pc = "ret", ![k].res = "ok"]
    /\ UNCHANGED <<sandboxes, mu, image, containers, nextSandbox, nextAction, cre,
                   del, ini, tasks, agentInbox, deleted, exi>>

ReceiveInternalObservation(ids, types, stray, limit) ==
    \/ \E sandboxID \in ids :
       \E observationData \in AgentFrames(sandboxID, types) \cup stray :
          ReceiveInternalObservation_Lookup(sandboxID, observationData, limit)
    \/ \E k \in DOMAIN rio : ReceiveInternalObservation_Forward(k)
    \/ \E k \in DOMAIN rio : ReceiveInternalObservation_End(k)

\* ------------------------------------------------------- specifications
\* The sandbox lifecycle against a backend whose every call can fail, with
\* concurrent DeleteSandbox callers.
Next ==
    \/ CreateSandbox(SandboxIds, TRUE)
    \/ DeleteSandbox(Deleters, SandboxIds, TRUE)
    \/ BackendLosesContainer

Spec == Init /\ [][Next]_vars

\* CreateSandbox against a backend that answers every call: the step after a
\* failed start is left out, it cannot be taken.
CreateSandboxOK(ids) ==
    \/ CreateSandbox_Lock(ids)
    \/ CreateSandbox_ImageInspect(FALSE)
    \/ CreateSandbox_ImagePull(FALSE)
    \/ CreateSandbox_ImageInspect2(FALSE)
    \/ CreateSandbox_ContainerCreate(FALSE)
    \/ CreateSandbox_ContainerStart(FALSE)
    \/ CreateSandbox_InspectAndStore(FALSE, NetworkChoices \ {{}})

\* The sandbox the action specifications create.
FlowSandboxes == {1}

\* The action flow on a sandbox that stays registered: InitiateAction, its
\* goroutines, and the agent posting stream and result frames of the actions
\* it has received.
NextFlow ==
    \/ CreateSandboxOK(FlowSandboxes)
    \/ InitiateAction(FlowSandboxes, {"shell"}, {PlainPayload}, MaxActions)
    \/ handleActionExecution
    \/ ReceiveInternalObservation(FlowSandboxes, {"stream", "result"}, {}, MaxPosts)

SpecFlow == Init /\ [][NextFlow]_vars

\* ReceiveInternalObservation of stream frames: the call returns after the
\* broadcast, the branch for a result is not entered.
ReceiveInternalObservationStream(ids, limit) ==
    \/ \E sandboxID \in ids :
       \E observationData \in AgentFrames(sandboxID, {"stream"}) :
          ReceiveInternalObservation_Lookup(sandboxID, observationData, limit)
    \/ \E k \in DOMAIN rio : ReceiveInternalObservation_Forward(k)

\* The action flow with the sandbox deleted under it: as NextFlow, with
\* DeleteSandbox, whose backend calls can fail, and the agent posting stream
\* frames.
NextTeardown ==
    \/ CreateSandboxOK(FlowSandboxes)
    \/ DeleteSandbox({1}, FlowSandboxes, TRUE)
    \/ InitiateAction(FlowSandboxes, {"shell"}, {PlainPayload}, MaxActions)
    \/ handleActionExecution
    \/ ReceiveInternalObservationStream(FlowSandboxes, MaxPosts)

SpecTeardown == Init /\ [][NextTeardown]_vars

\* The ingress endpoint alone, the agent posting bodies of every kind (frames
\* without an action_id, frames whose action_id the Manager never minted,
\* results in both layouts, bytes that are no JSON) for the sandbox that
\* CreateSandbox registers and for an id that is never registered.
IngestSandboxes == FlowSandboxes \cup {MaxSandboxes}

IngestBodies ==
    StrayPosts \cup {WireResultBody(BogusAction, 0), WireResultBody(BogusAction, NoCode)}

NextIngest ==
    \/ CreateSandboxOK(FlowSandboxes)
    \/ ReceiveInternalObservation(IngestSandboxes, {}, IngestBodies, MaxIngestPosts)

SpecIngest == Init /\ [][NextIngest]_vars

\* CreateSandbox against a backend that answers every call, the inspection
\* reporting every set of addresses.
NextAddress ==
    \/ CreateSandbox_Lock(SandboxIds)
    \/ CreateSandbox_ImageInspect(FALSE)
    \/ CreateSandbox_ImagePull(FALSE)
    \/ CreateSandbox_ImageInspect2(FALSE)
    \/ CreateSandbox_ContainerCreate(FALSE)
    \/ CreateSandbox_ContainerStart(FALSE)
    \/ CreateSandbox_InspectAndStore(FALSE, AllNetworks)

SpecAddress == Init /\ [][NextAddress]_vars

\* The registry and its lock: CreateSandbox and DeleteSandbox against a
\* backend that answers and can lose a container, with every reader of the
\* registry: concurrent SandboxExists callers, InitiateAction, and
\* ReceiveInternalObservation for a stream frame.
NextRegistry ==
    \/ CreateSandboxOK(FlowSandboxes)
    \/ DeleteSandbox({1}, FlowSandboxes, FALSE)
    \/ BackendLosesContainer
    \/ SandboxExists(Readers, FlowSandboxes)
    \/ InitiateAction(FlowSandboxes, {"shell"}, {PlainPayload}, MaxActions)
    \/ \E sandboxID \in FlowSandboxes :
          ReceiveInternalObservation_Lookup(sandboxID, StreamBody(BogusAction),
                                            MaxPosts)
    \/ \E k \in DOMAIN rio : ReceiveInternalObservation_Forward(k)

SpecRegistry == Init /\ [][NextRegistry]_vars

\* The dispatch alone: InitiateAction with every action type and with
\* payloads with and without an action_id key of their own, and its
\* goroutines.
NextDispatch ==
    \/ CreateSandboxOK(FlowSandboxes)
    \/ InitiateAction(FlowSandboxes, ActionTypes, {PlainPayload, OwnIDPayload},
                      MaxActions)
    \/ handleActionExecution

SpecDispatch == Init /\ [][NextDispatch]_vars

\* ------------------------------------------------- the frames of an action
\* The places in hub of the frames carrying action_id a.
FramesOf(a) == {i \in 1..Len(hub) : hub[i].bytes.action_id = a}
\* Those of type t.
FramesOfType(a, t) == {i \in FramesOf(a) : hub[i].bytes.type = t}
\* Those the goroutine of a submitted, in order.
TaskFrames(a) ==
    SelectSeq(hub, LAMBDA f : f.src = "task" /\ f.bytes.action_id = a)
\* The agent request of a has failed.
RequestFailed(a) == tasks[a].why \in {"build", "transport", "status"}
\* The agent request of a has left the Manager (or could not be built).
RequestSent(a) == tasks[a].pc \in {"await", "end", "done"}
\* No call of ReceiveInternalObservation is under way.
NoPostInFlight == \A k \in DOMAIN rio : rio[k].pc = "ret"

\* ------------------------------------------------------------------ C1
\* C1: for an accepted action on a sandbox that is registered, once the
\* goroutine has ended and no post is being processed, and the agent request
\* has failed or a result of the action has been forwarded, hub holds exactly
\* one start and exactly one end with that action_id.
C1_ExactlyOneStartAndEnd ==
    \A a \in DOMAIN tasks :
        ( /\ tasks[a].sb \in DOMAIN sandboxes
          /\ tasks[a].pc = "done"
          /\ NoPostInFlight
          /\ (RequestFailed(a) \/ FramesOfType(a, "result") # {}) )
        => ( /\ Cardinality(FramesOfType(a, "start")) = 1
             /\ Cardinality(FramesOfType(a, "end")) = 1 )

\* ------------------------------------------------------------------ C2
\* C2: among the frames of one action_id in hub, a start comes before every
\* frame that is no start, and an end comes after every frame that is no end.
C2_StartFirstEndLast ==
    \A a \in DOMAIN tasks :
    \A i, j \in FramesOf(a) :
        /\ (hub[i].bytes.type = "start" /\ hub[j].bytes.type # "start") => i < j
        /\ (hub[i].bytes.type = "end" /\ hub[j].bytes.type # "end") => j < i

\* ------------------------------------------------------------------ C3
\* C3: when the agent request of an action has been sent, the goroutine's
\* start frame is already in hub; and every end synthesized by
\* ReceiveInternalObservation comes later in hub than a forwarded result
\* frame of the same action and sandbox.
C3_StartBeforeRequestEndAfterResult ==
    /\ \A a \in DOMAIN tasks :
          (RequestSent(a) \/ a \in agentInbox) =>
             \E i \in FramesOfType(a, "start") :
                hub[i].src = "task" /\ hub[i].sb = tasks[a].sb
    /\ \A i \in 1..Len(hub) :
          hub[i].src = "synth" =>
             /\ hub[i].bytes.type = "end"
             /\ \E j \in 1..(i - 1) :
                   /\ hub[j].src = "raw"
                   /\ hub[j].bytes.type = "result"
                   /\ hub[j].bytes.action_id = hub[i].bytes.action_id
                   /\ hub[j].sb = hub[i].sb

\* C3 happens: a request has reached the agent and an end has been synthesized.
C3_Witness ==
    /\ agentInbox # {}
    /\ \E i \in 1..Len(hub) : hub[i].src = "synth"

\* ------------------------------------------------------------------ C4
\* C4 as stated: whenever InitiateAction has returned an action_id (its
\* goroutine is launched), the start frame of that action_id is in hub.
C4_StartBeforeReturn ==
    \A a \in DOMAIN tasks : FramesOfType(a, "start") # {}

\* C4 amended: InitiateAction submits no frame; the start frame is submitted
\* by the goroutine it launches, as that goroutine's first step: while the
\* goroutine has not taken it hub holds no frame of the action, and from then
\* on it holds exactly one start, submitted by the goroutine, ahead of every
\* other frame of the action.
C4_StartIsTheTasksFirstStep ==
    \A a \in DOMAIN tasks :
        IF tasks[a].pc = "start"
        THEN FramesOf(a) = {}
        ELSE /\ Cardinality(FramesOfType(a, "start")) = 1
             /\ \A i \in FramesOfType(a, "start") :
                   /\ hub[i].src = "task"
                   /\ \A j \in FramesOf(a) : i <= j

\* C4 happens: InitiateAction has returned an action_id whose goroutine has
\* not yet submitted start.
C4_Witness ==
    /\ ini.pc = "ret" /\ ini.res = "ok"
    /\ tasks[ini.action].pc = "start"
    /\ FramesOf(ini.action) = {}

\* ------------------------------------------------------------------ C5
\* The types of a sequence of frames.
TypesOf(fs) == [i \in 1..Len(fs) |-> fs[i].bytes.type]

\* C5: the goroutine of an action whose request failed submits, after start,
\* one error frame and then one end frame with exit_code -1 and the error's
\* message, and nothing else; it is never blocked before the end; and no
\* goroutine ever submits a stream or a result frame.
C5_ErrorThenEndOnFailure ==
    \A a \in DOMAIN tasks :
        LET fs == TaskFrames(a) IN
        /\ \A i \in 1..Len(fs) : fs[i].bytes.type \in {"start", "error", "end"}
        /\ (tasks[a].pc = "end") =>
              /\ RequestFailed(a)
              /\ TypesOf(fs) = <<"start", "error">>
              /\ ENABLED handleActionExecution_PushEnd(a)
        /\ (tasks[a].pc = "done" /\ RequestFailed(a)) =>
              /\ TypesOf(fs) = <<"start", "error", "end">>
              /\ fs[3].bytes.data.exit_code = -1
              /\ fs[3].bytes.data.error = fs[2].bytes.data.error
              /\ fs[2].bytes.data.error = ErrMsg(tasks[a].why)
        /\ (tasks[a].pc = "done" /\ ~RequestFailed(a)) => TypesOf(fs) = <<"start">>

\* C5 happens: a goroutine whose request got status >= 400 has ended.
C5_Witness ==
    \E a \in DOMAIN tasks : tasks[a].pc = "done" /\ tasks[a].why = "status"

\* ------------------------------------------------------------------ C6
\* C6: InitiateAction reads exists and IsRunning from the registry as it is
\* at its lookup; it returns an action_id only if both were true; and when
\* they were not it returns an error, mints no action_id, launches no
\* goroutine, reaches no agent and submits no frame.
C6_Step ==
    /\ (ini' # ini /\ ini'.pc = "checked") =>
          /\ ini'.exists = (ini'.id \in DOMAIN sandboxes)
          /\ ini'.running = (ini'.exists /\ sandboxes[ini'.id].IsRunning)
    /\ (ini.pc = "checked" /\ ini'.pc = "ret") =>
          /\ ini'.res = "ok" => (ini.exists /\ ini.running)
          /\ ~(ini.exists /\ ini.running) =>
                /\ ini'.res = "err"
                /\ ini'.action = NoAction
                /\ UNCHANGED <<nextAction, tasks, agentInbox, hub, sandboxes>>

C6_OnlyOnARunningSandbox == [][C6_Step]_vars

\* C6 happens: an InitiateAction on an id that was not registered at its
\* lookup has returned its error, and one on a registered id its action_id.
C6_Witness ==
    /\ ini.pc = "ret" /\ ini.res = "err" /\ ~ini.exists
    /\ tasks # <<>>

\* ------------------------------------------------------------------ C7
\* C7: once DeleteSandbox has returned nil for a sandbox, no frame of that
\* sandbox is added to hub.
C7_Step ==
    \A i \in (Len(hub) + 1)..Len(hub') : hub'[i].sb \notin deleted

C7_NoFrameAfterDelete == [][C7_Step]_vars

\* ------------------------------------------------------------------ C8
\* C8: a DeleteSandbox whose id is not in the registry at its lookup returns
\* not-found and leaves registry and backend as they are; a DeleteSandbox
\* that returns after one on the same id has returned nil returns not-found;
\* so of the calls on one id, concurrent or not, at most one returns nil.
C8_Step ==
    \A d \in Deleters :
        /\ (del[d].pc = "wait" /\ del'[d].pc # "wait"
              /\ del[d].id \notin DOMAIN sandboxes) =>
              /\ del'[d].pc = "ret" /\ del'[d].res = "notfound"
              /\ UNCHANGED <<sandboxes, containers, image, deleted, mu>>
        /\ (del[d].pc # "ret" /\ del'[d].pc = "ret" /\ del[d].id \in deleted) =>
              del'[d].res = "notfound"
        /\ (del[d].pc # "ret" /\ del'[d].pc = "ret" /\ del'[d].res = "ok") =>
              del[d].id \notin deleted

C8_DeleteOnce == [][C8_Step]_vars

\* C8 happens: of two callers of DeleteSandbox on one known id, one has
\* returned nil and the other not-found.
C8_Witness ==
    \E d, e \in Deleters :
        /\ d # e
        /\ del[d].id = del[e].id
        /\ del[d].pc = "ret" /\ del[d].res = "ok"
        /\ del[e].pc = "ret" /\ del[e].res = "notfound"

\* ------------------------------------------------------------------ C9
\* C9: after a DeleteSandbox whose ContainerRemove failed with an error other
\* than "no such container" (the call returned that error), the registry has
\* no entry for its id.
C9_EntryClearedOnFailedRemove ==
    \A d \in Deleters :
        (del[d].pc = "ret" /\ del[d].res = "fail") =>
            del[d].id \notin DOMAIN sandboxes

\* ----------------------------------------------------------------- C10
\* C10: once DeleteSandbox has returned nil for the id a CreateSandbox
\* returned, the registry has no entry for the id and the backend does not
\* hold the container created for it.
C10_CreateDeleteLeavesNothing ==
    \A sandboxID \in deleted :
        /\ sandboxID \notin DOMAIN sandboxes
        /\ sandboxID \notin DOMAIN containers

\* C10 happens: CreateSandbox has returned an id and a DeleteSandbox on that
\* id has returned nil.
C10_Witness ==
    \E d \in Deleters :
        /\ del[d].pc = "ret" /\ del[d].res = "ok"
        /\ del[d].id \in deleted
        /\ del[d].id <= nextSandbox

\* ----------------------------------------------------------------- C11
\* C11: while a call to the container backend is in progress (CreateSandbox
\* between its lock and its return, DeleteSandbox at ContainerStop or
\* ContainerRemove), nobody holds the exclusive lock of the registry, so a
\* reader can take the read lock.
C11_NoBackendCallUnderLock ==
    ( \/ cre.pc \in {"inspect1", "pull", "inspect2", "create", "start", "rm",
                     "cinspect"}
      \/ \E d \in Deleters : del[d].pc \in {"stop", "remove"} )
    => (mu.w = NoWriter /\ CanRLock)

\* ----------------------------------------------------------------- C12
\* C12: from the step in which CreateSandbox takes the lock to the step in
\* which it returns an error, no step changes the registry; and the id of a
\* CreateSandbox that returned an error is not in the registry.
C12_Step ==
    /\ (cre'.pc # "ret" /\ cre'.pc # "idle") => sandboxes' = sandboxes
    /\ (cre.pc # "ret" /\ cre'.pc = "ret" /\ cre'.res = "err") =>
          /\ sandboxes' = sandboxes
          /\ cre'.id \notin DOMAIN sandboxes'

C12_FailedCreateLeavesRegistry == [][C12_Step]_vars

\* C12 happens: a CreateSandbox has returned an error while the registry
\* holds the entry of an earlier one.
C12_Witness ==
    /\ cre.pc = "ret" /\ cre.res = "err"
    /\ sandboxes # <<>>
    /\ cre.id \notin DOMAIN sandboxes

\* ----------------------------------------------------------------- C13
\* C13: a failed ContainerStart does not return: CreateSandbox goes on to
\* ContainerRemove of the container it created, and after that call, whether
\* it removed the container or failed, returns the error.
C13_Step ==
    /\ (cre.pc = "start" /\ cre'.pc # "start") =>
          \/ cre'.pc = "cinspect" /\ containers'[cre.id] = "running"
          \/ cre'.pc = "rm" /\ cre'.id = cre.id /\ mu'.w = mu.w
    /\ (cre.pc = "rm" /\ cre'.pc # "rm") =>
          /\ cre'.pc = "ret" /\ cre'.res = "err"
          /\ \/ containers' = containers
             \/ containers' = MapDelete(containers, cre.id)
          /\ sandboxes' = sandboxes
    /\ (cre'.pc = "rm" /\ cre.pc # "rm") => cre.pc = "start"

C13_RemoveAfterFailedStart == [][C13_Step]_vars

\* C13 happens: CreateSandbox has returned its error after a failed start
\* whose ContainerRemove failed too: the container is still there, created
\* and never started.
C13_Witness ==
    /\ cre.pc = "ret" /\ cre.res = "err"
    /\ cre.id \in DOMAIN containers
    /\ containers[cre.id] = "created"

\* ----------------------------------------------------------------- C14
\* C14: every entry of the registry has IsRunning true and an AgentURL with a
\* non-empty address and the agent port; an entry is added only by a
\* CreateSandbox past its ContainerInspect, for its own id, whose container
\* is running in the backend; and an entry, once added, is never changed.
C14_Step ==
    /\ \A sandboxID \in DOMAIN sandboxes' :
          /\ sandboxes'[sandboxID].IsRunning
          /\ sandboxes'[sandboxID].AgentURL.ip # NoIP
          /\ sandboxes'[sandboxID].AgentURL.port = AgentPort
          /\ sandboxes'[sandboxID].ContainerID = sandboxID
    /\ \A sandboxID \in (DOMAIN sandboxes') \ (DOMAIN sandboxes) :
          /\ cre.pc = "cinspect" /\ cre.id = sandboxID
          /\ sandboxID \in DOMAIN containers
          /\ containers[sandboxID] = "running"
    /\ \A sandboxID \in (DOMAIN sandboxes') \cap (DOMAIN sandboxes) :
          sandboxes'[sandboxID] = sandboxes[sandboxID]

C14_EntriesAreRunningAndResolved == [][C14_Step]_vars

\* C14 happens: the registry holds an entry, and a CreateSandbox whose
\* container was started has returned an error for want of an inspection or
\* an address.
C14_Witness ==
    /\ sandboxes # <<>>
    /\ cre.pc = "ret" /\ cre.res = "err"
    /\ cre.id \in DOMAIN containers
    /\ containers[cre.id] = "running"

\* ----------------------------------------------------------------- C15
\* C15: an InitiateAction that reads the registry after a DeleteSandbox has
\* looked up its sandbox as known (that DeleteSandbox is at its backend calls,
\* or has returned nil or the error of ContainerRemove) is not accepted: it
\* does not find the sandbox both registered and running.
C15_Step ==
    (ini.pc # "checked" /\ ini'.pc = "checked") =>
        ( (\E d \in Deleters :
              /\ del[d].id = ini'.id
              /\ \/ del[d].pc \in {"stop", "remove"}
                 \/ del[d].pc = "ret" /\ del[d].res \in {"ok", "fail"})
          => ~(ini'.exists /\ ini'.running) )

C15_NoActionOnceTerminating == [][C15_Step]_vars

\* ----------------------------------------------------------------- C16
\* C16: ReceiveInternalObservation reads from the registry, as it is at its
\* lookup, whether the sandbox id is registered; and a call that found the id
\* not registered returns ok without a frame being submitted, whatever its
\* body, bytes that are no JSON included.
C16_Step ==
    /\ Len(rio') > Len(rio) =>
          rio'[Len(rio')].exists = (rio'[Len(rio')].sb \in DOMAIN sandboxes)
    /\ \A k \in DOMAIN rio :
          (rio[k].pc = "checked" /\ rio'[k].pc # "checked" /\ ~rio[k].exists) =>
             /\ rio'[k].pc = "ret" /\ rio'[k].res = "ok"
             /\ hub' = hub

C16_UnknownSandboxDiscarded == [][C16_Step]_vars

\* C16 happens: a post of bytes that are no JSON, and a post of a result, for
\* an id that was not registered have returned ok, and hub has no frame of
\* that id.
C16_Witness ==
    \E j, k \in DOMAIN rio :
        /\ rio[j].sb = rio[k].sb
        /\ ~rio[j].exists /\ rio[j].pc = "ret" /\ rio[j].res = "ok"
        /\ ~rio[j].body.json
        /\ ~rio[k].exists /\ rio[k].pc = "ret" /\ rio[k].res = "ok"
        /\ rio[k].body.type = "result" /\ rio[k].body.action_id # NoAction
        /\ \A i \in 1..Len(hub) : hub[i].sb # rio[k].sb

\* ----------------------------------------------------------------- C17
\* C17: a call for a registered sandbox whose body is JSON with no action_id
\* (missing or empty) returns ok without submitting a frame, and goes on to no
\* synthesized end, also when the type is result; no frame ever submitted
\* has an empty action_id.
C17_Step ==
    /\ \A k \in DOMAIN rio :
          ( /\ rio[k].pc = "checked" /\ rio'[k].pc # "checked"
            /\ rio[k].exists /\ rio[k].body.json
            /\ rio[k].body.action_id = NoAction ) =>
             /\ rio'[k].pc = "ret" /\ rio'[k].res = "ok"
             /\ hub' = hub
    /\ \A i \in (Len(hub) + 1)..Len(hub') : hub'[i].bytes.action_id # NoAction

C17_NoActionIDIgnored == [][C17_Step]_vars

\* C17 happens: a result without action_id posted for a registered sandbox
\* has returned ok.
C17_Witness ==
    \E k \in DOMAIN rio :
        /\ rio[k].exists /\ rio[k].pc = "ret" /\ rio[k].res = "ok"
        /\ rio[k].body.json /\ rio[k].body.type = "result"
        /\ rio[k].body.action_id = NoAction
        /\ hub = <<>>

\* ----------------------------------------------------------------- C18
\* C18: a call for a registered sandbox whose body is no JSON returns the
\* parse error in a step that changes nothing but the call's own record: no
\* frame is submitted, registry, lock and the other calls are as they were.
C18_Step ==
    \A k \in DOMAIN rio :
        ( /\ rio[k].pc = "checked" /\ rio'[k].pc # "checked"
          /\ rio[k].exists /\ ~rio[k].body.json ) =>
           /\ rio'[k] = [rio[k] EXCEPT !.pc = "ret", !.res = "parse_error"]
           /\ \A j \in (DOMAIN rio) \ {k} : rio'[j] = rio[j]
           /\ Len(rio') = Len(rio)
           /\ UNCHANGED <<sandboxes, mu, image, containers, nextSandbox,
                          nextAction, cre, del, ini, tasks, agentInbox, hub,
                          deleted, exi>>

C18_ParseErrorChangesNothing == [][C18_Step]_vars

\* C18 happens: bytes that are no JSON posted for a registered sandbox got
\* the parse error, and a later post of a frame for the same sandbox was
\* forwarded, the only frame in hub.
C18_Witness ==
    \E j, k \in DOMAIN rio :
        /\ j < k /\ rio[j].sb = rio[k].sb
        /\ rio[j].exists /\ rio[j].pc = "ret" /\ rio[j].res = "parse_error"
        /\ rio[k].exists /\ rio[k].pc = "ret" /\ rio[k].res = "ok"
        /\ rio[k].body.type = "stream"
        /\ hub = <<Frame(rio[k].sb, "raw", rio[k].body)>>

\* ----------------------------------------------------------------- C19
\* The calls that got as far as the broadcast: registered sandbox, JSON,
\* action_id present, past the Forward step.
Forwarded ==
    {k \in DOMAIN rio : /\ rio[k].pc \in {"end", "ret"}
                        /\ rio[k].exists /\ rio[k].body.json
                        /\ rio[k].body.action_id # NoAction}

\* C19: the frames forwarded from the agent are, sandbox by sandbox and byte
\* sequence by byte sequence, as many as the accepted calls that posted that
\* byte sequence for that sandbox: each accepted body is in hub once per
\* post, as the bytes that were posted.
C19_RawBytesOnce ==
    /\ \A k \in Forwarded :
          Cardinality({i \in 1..Len(hub) :
                          /\ hub[i].src = "raw"
                          /\ hub[i].sb = rio[k].sb
                          /\ hub[i].bytes = rio[k].body})
          = Cardinality({j \in Forwarded : /\ rio[j].sb = rio[k].sb
                                           /\ rio[j].body = rio[k].body})
    /\ Cardinality({i \in 1..Len(hub) : hub[i].src = "raw"})
          = Cardinality(Forwarded)

\* C19 happens: a result in the layout of the wire schema, posted twice for a
\* registered sandbox, has been forwarded twice.
C19_Witness ==
    \E j, k \in Forwarded :
        /\ j # k
        /\ rio[j].sb = rio[k].sb /\ rio[j].body = rio[k].body
        /\ rio[k].body = WireResultBody(BogusAction, 0)

\* ----------------------------------------------------------------- C20
\* C20: for every accepted result in the layout of the wire schema whose call
\* has returned, hub holds a synthesized end of the same sandbox and
\* action_id that carries the result's exit_code (-1 if it has none) and the
\* result's error.
C20_EndCarriesResultExitCode ==
    \A k \in Forwarded :
        ( /\ rio[k].pc = "ret"
          /\ rio[k].body.type = "result"
          /\ rio[k].body.data.kind = "absent" ) =>
           \E i \in 1..Len(hub) :
              /\ hub[i].src = "synth"
              /\ hub[i].sb = rio[k].sb
              /\ hub[i].bytes.type = "end"
              /\ hub[i].bytes.action_id = rio[k].body.action_id
              /\ hub[i].bytes.data.exit_code =
                    (IF rio[k].body.exit_code # NoCode
                     THEN rio[k].body.exit_code ELSE -1)
              /\ hub[i].bytes.data.error = rio[k].body.error

\* ----------------------------------------------------------------- C25
\* C25: an InitiateAction that found its sandbox registered and running and
\* whose action type is neither shell nor ipython returns an error and no
\* action_id, launches no goroutine, reaches no agent and submits no frame;
\* an accepted shell action is launched on the AgentURL of the sandbox with
\* /tools:run_shell_command, an accepted ipython action with
\* /tools:run_ipython_cell.
C25_Step ==
    /\ (ini.pc # "checked" /\ ini'.pc = "checked" /\ ini'.exists) =>
          ini'.url = sandboxes[ini'.id].AgentURL
    /\ (ini.pc = "checked" /\ ini'.pc = "ret" /\ ini.exists /\ ini.running) =>
          IF ini.kind \in {"shell", "ipython"}
          THEN /\ ini'.res = "ok"
               /\ DOMAIN tasks' = (DOMAIN tasks) \cup {ini'.action}
               /\ ini'.action \notin DOMAIN tasks
               /\ tasks'[ini'.action].pc = "start"
               /\ tasks'[ini'.action].sb = ini.id
               /\ tasks'[ini'.action].base = ini.url
               /\ tasks'[ini'.action].path =
                     (IF ini.kind = "shell" THEN "/tools:run_shell_command"
                                            ELSE "/tools:run_ipython_cell")
          ELSE /\ ini'.res = "err" /\ ini'.action = NoAction
               /\ UNCHANGED <<tasks, agentInbox, hub>>

C25_UnknownKindRejected == [][C25_Step]_vars

\* C25 happens: an InitiateAction with an unknown action type on a registered
\* running sandbox has returned its error; there is no goroutine and no frame.
C25_Witness ==
    /\ ini.pc = "ret" /\ ini.res = "err"
    /\ ini.exists /\ ini.running /\ ini.kind = "unknown"
    /\ tasks = <<>> /\ hub = <<>> /\ agentInbox = {}

\* ----------------------------------------------------------------- C29
\* C29: the request body of every accepted action carries, as action_id, the
\* action_id InitiateAction returned (the one of the goroutine's frames), and
\* the client's command unchanged.
C29_RequestCarriesMintedID ==
    /\ \A a \in DOMAIN tasks : tasks[a].body.action_id = a
    /\ (ini.pc = "ret" /\ ini.res = "ok") =>
          /\ tasks[ini.action].body.action_id = ini.action
          /\ tasks[ini.action].body.command = ini.payload.command

\* ----------------------------------------------------------------- C23
\* C23: ContainerStop, failed or not, is followed by ContainerRemove, never
\* by a return; a ContainerRemove that removed the container, or found it
\* gone, is followed by the removal of the entry and the return of nil; and
\* DeleteSandbox returns nil only with the entry removed.
C23_Step ==
    \A d \in Deleters :
        /\ (del[d].pc = "stop" /\ del'[d].pc # "stop") =>
              /\ del'[d].pc = "remove" /\ del'[d].id = del[d].id
              /\ sandboxes' = sandboxes /\ mu' = mu
        /\ (del[d].pc = "remove" /\ del'[d].pc # "remove") =>
              /\ del'[d].pc = "ret" /\ del'[d].res \in {"ok", "fail"}
              /\ containers' # containers => del'[d].res = "ok"
              /\ del'[d].res = "ok" =>
                    /\ sandboxes' = MapDelete(sandboxes, del[d].id)
                    /\ del[d].id \notin DOMAIN containers'
              /\ del'[d].res = "fail" => containers' = containers
        /\ (del'[d].pc = "remove" /\ del[d].pc # "remove") => del[d].pc = "stop"

C23_StopFailureDoesNotAbort == [][C23_Step]_vars

\* C23 happens: a DeleteSandbox whose ContainerStop failed (the container is
\* still running) is at its ContainerRemove, and another has returned nil.
C23_Witness ==
    \E d \in Deleters :
        /\ del[d].pc = "remove"
        /\ del[d].id \in DOMAIN containers
        /\ containers[del[d].id] = "running"
        /\ deleted # {}

\* ----------------------------------------------------------------- C24
\* C24: the goroutine of an action whose request the agent accepted has
\* submitted start and nothing else; the goroutine of an action submits an
\* end only after the failure of its request; and every other end in hub is
\* one ReceiveInternalObservation synthesized after a result frame of the
\* same action_id that it had forwarded: while no result of an action has
\* been forwarded and its request has not failed, hub holds no end for it.
C24_EndOnlyFromResult ==
    \A a \in DOMAIN tasks :
        /\ (tasks[a].pc = "done" /\ tasks[a].why = "ok") =>
              TypesOf(TaskFrames(a)) = <<"start">>
        /\ \A i \in FramesOfType(a, "end") :
              \/ hub[i].src = "task" /\ RequestFailed(a)
              \/ /\ hub[i].src = "synth"
                 /\ \E j \in FramesOfType(a, "result") : j < i /\ hub[j].src = "raw"
        /\ (~RequestFailed(a) /\ FramesOfType(a, "result") = {}) =>
              FramesOfType(a, "end") = {}

\* C24 happens: the agent accepted the request of an action and has posted a
\* stream frame of it but no result; every call has returned, and hub holds
\* no end for the action.
C24_Witness ==
    \E a \in DOMAIN tasks :
        /\ tasks[a].pc = "done" /\ tasks[a].why = "ok"
        /\ NoPostInFlight
        /\ FramesOfType(a, "stream") # {}
        /\ FramesOfType(a, "end") = {}

\* ----------------------------------------------------------------- C28
\* C28: after a CreateSandbox that got past ContainerStart has returned an
\* error (ContainerInspect failed, or no address was found), the backend
\* does not hold the container the call started.
C28_NoContainerAfterFailedCreate ==
    (cre.pc = "ret" /\ cre.res = "err") =>
        ~(cre.id \in DOMAIN containers /\ containers[cre.id] = "running")

\* ----------------------------------------------------------------- C30
\* C30: every frame in hub carries the action_id of an action that an
\* InitiateAction accepted on the frame's sandbox.
C30_FramesOfAcceptedActionsOnly ==
    \A i \in 1..Len(hub) :
        /\ hub[i].bytes.action_id \in DOMAIN tasks
        /\ tasks[hub[i].bytes.action_id].sb = hub[i].sb

\* ----------------------------------------------------------------- C27
\* C27: the first image inspect is followed by the second one at once when it
\* succeeded (no pull is issued), and by ImagePull when it failed; a pull is
\* followed by the second inspect only when it was issued and drained without
\* error, and by the return of the error otherwise; ContainerCreate is reached
\* only from a second inspect that found the image present; a second inspect
\* that finds the image absent returns the error; and a container is added
\* to the backend only by a CreateSandbox whose second inspect succeeded.
C27_Step ==
    /\ (cre.pc = "inspect1" /\ cre'.pc # "inspect1") =>
          \/ cre'.pc = "inspect2" /\ image /\ ~cre'.pulled
          \/ cre'.pc = "pull"
    /\ (cre.pc = "pull" /\ cre'.pc # "pull") =>
          \/ cre'.pc = "inspect2" /\ cre'.pulled
          \/ cre'.pc = "ret" /\ cre'.res = "err" /\ containers' = containers
    /\ (cre.pc = "inspect2" /\ cre'.pc # "inspect2") =>
          \/ cre'.pc = "create" /\ image /\ cre'.confirmed
          \/ cre'.pc = "ret" /\ cre'.res = "err" /\ containers' = containers
    /\ (cre.pc = "inspect2" /\ cre'.pc # "inspect2" /\ ~image) => cre'.pc = "ret"
    /\ (cre'.pc = "create" /\ cre.pc # "create") => cre.pc = "inspect2"
    /\ (cre'.pc = "inspect2" /\ cre.pc # "inspect2") => cre.pc \in {"inspect1", "pull"}
    /\ \A cid \in (DOMAIN containers') \ (DOMAIN containers) :
          cre.pc = "create" /\ cre.confirmed /\ cid = cre.id

C27_CreateOnlyWithConfirmedImage == [][C27_Step]_vars

\* C27 happens: a CreateSandbox whose first inspect failed has pulled the
\* image, found it at the second inspect and created its container; and an
\* earlier CreateSandbox has failed.
C27_Witness ==
    /\ cre.pc = "start" /\ cre.pulled /\ cre.confirmed
    /\ cre.id \in DOMAIN containers
    /\ cre.id > 1

\* ----------------------------------------------------------------- C21
\* C21: for the set of addresses the inspection reported, a CreateSandbox
\* that returns its id has stored one of them that is not empty; one off the
\* 172.17. prefix whenever the set has a non-empty address off that prefix,
\* one on the prefix only when it has no other non-empty address; and
\* CreateSandbox returns an error, storing nothing, exactly when the set has
\* no non-empty address.
C21_Step ==
    (cre.pc = "cinspect" /\ cre'.pc = "ret") =>
        LET nets  == cre'.networks
            good  == {ip \in nets : ip # NoIP /\ ~HasPrefix17217(ip)}
            found == {ip \in nets : ip # NoIP}
        IN  /\ (found = {}) <=> (cre'.res = "err")
            /\ cre'.res = "err" => sandboxes' = sandboxes
            /\ cre'.res = "ok" =>
                  LET sel == sandboxes'[cre.id].AgentURL.ip IN
                  /\ sel # NoIP
                  /\ sel \in nets
                  /\ good # {} => sel \in good
                  /\ HasPrefix17217(sel) => good = {}

C21_AddressSelection == [][C21_Step]_vars

\* C21 happens: of two CreateSandbox calls, one was reported a bridge address
\* alone and stored it, the other was reported the bridge address, an empty
\* one and others, and stored one of the others.
C21_Witness ==
    /\ cre.pc = "ret" /\ cre.res = "ok"
    /\ \E ip \in cre.networks : HasPrefix17217(ip)
    /\ NoIP \in cre.networks
    /\ cre.id \in DOMAIN sandboxes
    /\ ~HasPrefix17217(sandboxes[cre.id].AgentURL.ip)
    /\ \E other \in DOMAIN sandboxes : HasPrefix17217(sandboxes[other].AgentURL.ip)

\* ----------------------------------------------------------------- C22
\* C22: the operations inside the exclusive critical section (CreateSandbox
\* from its lock to its return, a DeleteSandbox that found its sandbox, to its
\* return) are at most one, the holder of the exclusive lock, and while there
\* is one no SandboxExists is inside its read section; the SandboxExists
\* callers inside their read section are the holders of the read lock, any
\* number of them.
C22_WritersExcludeEachOtherAndReaders ==
    LET writers == (IF cre.pc \in {"inspect1", "pull", "inspect2", "create",
                                   "start", "rm", "cinspect"}
                    THEN {<<"create", 0>>} ELSE {})
                   \cup {<<"delete", d>> : d \in {x \in Deleters :
                                                   del[x].pc \in {"stop", "remove"}}}
        readers == {r \in Readers : exi[r].pc = "locked"}
    IN  /\ Cardinality(writers) <= 1
        /\ writers = (IF mu.w = NoWriter THEN {} ELSE {mu.w})
        /\ mu.r = readers
        /\ writers # {} => readers = {}

\* C22 happens: two SandboxExists callers are inside their read sections at
\* once, with a DeleteSandbox waiting for the lock.
C22_Witness ==
    /\ Cardinality(mu.r) >= 2
    /\ \E d \in Deleters : del[d].pc = "wait"
    /\ sandboxes # <<>>

\* ----------------------------------------------------------------- C26
\* C26: SandboxExists returns whether its id is in the registry at its read,
\* and InitiateAction and ReceiveInternalObservation record the same of their
\* id at their lookup; an id enters the registry in the step in which
\* CreateSandbox returns it, and in no other; it leaves the registry in the
\* step in which a DeleteSandbox on it returns nil, and in no other; so an id
\* is registered exactly from the one return to the other, whatever has
\* become of its container.
C26_Step ==
    /\ \A r \in Readers :
          (exi[r].pc = "locked" /\ exi'[r].pc = "ret") =>
             exi'[r].res = (exi[r].id \in DOMAIN sandboxes)
    /\ (ini.pc # "checked" /\ ini'.pc = "checked") =>
          ini'.exists = (ini'.id \in DOMAIN sandboxes)
    /\ Len(rio') > Len(rio) =>
          rio'[Len(rio')].exists = (rio'[Len(rio')].sb \in DOMAIN sandboxes)
    /\ \A sandboxID \in (DOMAIN sandboxes') \ (DOMAIN sandboxes) :
          cre.pc = "cinspect" /\ cre.id = sandboxID
    /\ (cre.pc # "ret" /\ cre'.pc = "ret") =>
          (cre'.res = "ok") = (cre'.id \in DOMAIN sandboxes')
    /\ \A sandboxID \in (DOMAIN sandboxes) \ (DOMAIN sandboxes') :
          \E d \in Deleters :
             /\ del[d].pc = "remove" /\ del[d].id = sandboxID
             /\ del'[d].pc = "ret" /\ del'[d].res = "ok"
    /\ \A d \in Deleters :
          (del[d].pc # "ret" /\ del'[d].pc = "ret" /\ del'[d].res = "ok") =>
             /\ del[d].id \in DOMAIN sandboxes
             /\ del[d].id \notin DOMAIN sandboxes'
             /\ del[d].id \in deleted'
    /\ \A sandboxID \in DOMAIN sandboxes' : sandboxID \notin deleted'

C26_RegistryIsTheOnlyWord == [][C26_Step]_vars

\* C26 happens: SandboxExists has returned true for a registered sandbox
\* whose container the backend has lost, to one caller, and false to another
\* caller before the sandbox was created.
C26_Witness ==
    \E r, q \in Readers :
        /\ exi[r].pc = "ret" /\ exi[r].res
        /\ exi[q].pc = "ret" /\ ~exi[q].res /\ exi[q].id = exi[r].id
        /\ exi[r].id \in DOMAIN sandboxes
        /\ exi[r].id \notin DOMAIN containers

====
